---------------------------- MODULE Spec2Model ----------------------------
(***************************************************************************)
(* Model of drone_plotter: the ingestion worker (src/src/io.rs,            *)
(* input_thread) and the render loop (src/src/main.rs, PlotterApp), which  *)
(* share the atomic VALS_PER_LINE and two unbounded channels.              *)
(*                                                                         *)
(* A line is the sequence of its characters; a float is modelled by the    *)
(* integer it denotes (the lines of the model carry integer literals),     *)
(* with NaN and inf as the non-finite results.  A formatted diagnostic is  *)
(* the record of the values format! interpolates.  Time is counted in      *)
(* half seconds.                                                           *)
(*                                                                         *)
(* PlotterApp::update is one callback of the UI thread; it is cut where it *)
(* meets the other thread (the drain of the record channel, the store to   *)
(* VALS_PER_LINE, the drain of the diagnostic channel), and ui_pc is its   *)
(* position.  input_thread is cut at its loads of VALS_PER_LINE and its    *)
(* sends, and w_pc is its position.                                        *)
(* tele_port.write_all is taken to succeed.                                *)
(***************************************************************************)
EXTENDS Integers, Sequences, FiniteSets, TLC

\* ------------------------------------------------------------------ bounds

\* Lines the source delivers before it ends, in Spec.
MaxLines == 1
\* Lines the source delivers before it ends, in SpecStream.
StreamMaxLines == 3
\* Lines the source delivers before it ends, in SpecMsgs.
MsgMaxLines == 2
\* Lines the source delivers before it ends, in SpecRate.
RateMaxLines == 2
\* Clicks on the mode selector.
MaxSelects == 2
\* The clock's last half second.
MaxTime == 4
\* Capacity of a channel's ring buffer: 512 in the source, scaled down so
\* that eviction happens within StreamMaxLines appends.
MAX_HISTORY_LEN == 2

\* --------------------------------------------------------------- constants

MAX_MSGS == 16
\* Duration::from_secs(1), in half seconds.
RATE_UPDATE_INTERVAL == 2

\* ------------------------------------------------------------------- modes

\* The palette: one RGBColor per channel.
COLORS == <<
    <<141, 215, 242>>,
    <<78, 205, 196>>,
    <<179, 157, 219>>,
    <<255, 224, 102>>,
    <<255, 168, 0>>,
    <<255, 107, 107>>,
    <<167, 242, 110>>,
    <<255, 128, 237>>,
    <<128, 222, 234>> >>

TeleCategory == {"None", "Imu", "Attitude", "Pid", "Mix", "Dshot"}

\* `self.tele_mode as u8`
ModeOrdinal(mode) ==
    CASE mode = "None" -> 0
      [] mode = "Imu" -> 1
      [] mode = "Attitude" -> 2
      [] mode = "Pid" -> 3
      [] mode = "Mix" -> 4
      [] mode = "Dshot" -> 5

\* mode_to_dim with the arms of Attitude and Pid exchanged.
mode_to_dim_swapped(mode) ==
    CASE mode = "None" -> 0
      [] mode = "Imu" -> 9
      [] mode = "Attitude" -> 4
      [] mode = "Pid" -> 3
      [] mode = "Mix" -> 4
      [] mode = "Dshot" -> 4

mode_to_dim(mode) ==
    CASE mode = "None" -> 0
      [] mode = "Imu" -> 9
      [] mode = "Attitude" -> 3
      [] mode = "Pid" -> 4
      [] mode = "Mix" -> 4
      [] mode = "Dshot" -> 4

\* mode_to_labels with the last label of Imu missing.
mode_to_labels_short(mode) ==
    CASE mode = "None" -> <<>>
      [] mode = "Imu" -> <<"gyr(x)", "gyr(y)", "gyr(z)", "acc(x)", "acc(y)",
                           "acc(z)", "mag(x)", "mag(y)">>
      [] mode = "Attitude" -> <<"roll", "pitch", "yaw">>
      [] mode = "Pid" -> <<"throttle", "roll", "pitch", "yaw">>
      [] mode = "Mix" -> <<"M1", "M2", "M3", "M4">>
      [] mode = "Dshot" -> <<"M1", "M2", "M3", "M4">>

mode_to_labels(mode) ==
    CASE mode = "None" -> <<>>
      [] mode = "Imu" -> <<"gyr(x)", "gyr(y)", "gyr(z)", "acc(x)", "acc(y)",
                           "acc(z)", "mag(x)", "mag(y)", "mag(z)">>
      [] mode = "Attitude" -> <<"roll", "pitch", "yaw">>
      [] mode = "Pid" -> <<"throttle", "roll", "pitch", "yaw">>
      [] mode = "Mix" -> <<"M1", "M2", "M3", "M4">>
      [] mode = "Dshot" -> <<"M1", "M2", "M3", "M4">>

\* ----------------------------------------------------------- line parsing

Digits == {"0", "1", "2", "3", "4", "5", "6", "7", "8", "9"}

DigitVal(c) ==
    CASE c = "0" -> 0 [] c = "1" -> 1 [] c = "2" -> 2 [] c = "3" -> 3
      [] c = "4" -> 4 [] c = "5" -> 5 [] c = "6" -> 6 [] c = "7" -> 7
      [] c = "8" -> 8 [] c = "9" -> 9

DigitChar(n) ==
    CASE n = 0 -> "0" [] n = 1 -> "1" [] n = 2 -> "2" [] n = 3 -> "3"
      [] n = 4 -> "4" [] n = 5 -> "5"

\* line.split(','): the tokens between the commas; an empty line is one
\* empty token.
RECURSIVE SplitFrom(_, _, _)
SplitFrom(line, i, toks) ==
    IF i > Len(line) THEN toks
    ELSE IF line[i] = ","
         THEN SplitFrom(line, i + 1, Append(toks, <<>>))
         ELSE SplitFrom(line, i + 1,
                        [toks EXCEPT ![Len(toks)] = Append(@, line[i])])

Split(line) == SplitFrom(line, 1, << <<>> >>)

RECURSIVE DecimalFrom(_, _, _)
DecimalFrom(tok, i, acc) ==
    IF i > Len(tok) THEN acc
    ELSE DecimalFrom(tok, i + 1, 10 * acc + DigitVal(tok[i]))

AllDigits(tok, from) ==
    /\ Len(tok) >= from
    /\ \A i \in from..Len(tok) : tok[i] \in Digits

ParseErr == [ok |-> FALSE, finite |-> FALSE, val |-> 0]

\* str::parse::<f64> on the literals of the model: an optionally signed
\* decimal integer, NaN, inf; anything else (the empty token too) is Err.
ParseF64(tok) ==
    IF AllDigits(tok, 1)
    THEN [ok |-> TRUE, finite |-> TRUE, val |-> DecimalFrom(tok, 1, 0)]
    ELSE IF Len(tok) >= 2 /\ tok[1] = "-" /\ AllDigits(tok, 2)
    THEN [ok |-> TRUE, finite |-> TRUE, val |-> 0 - DecimalFrom(tok, 2, 0)]
    ELSE IF tok \in {<<"N", "a", "N">>, <<"i", "n", "f">>, <<"-", "i", "n", "f">>}
    THEN [ok |-> TRUE, finite |-> FALSE, val |-> 0]
    ELSE ParseErr

\* ------------------------------------------------------------- diagnostics

NonFiniteMsg(tok) ==
    [kind |-> "nonfinite", token |-> tok, expected |-> 0, got |-> 0, line |-> <<>>]

\* MismatchMsg with the two counts passed to format! in the other order.
MismatchMsgSwapped(expected, got, line) ==
    [kind |-> "mismatch", token |-> <<>>, expected |-> got, got |-> expected,
     line |-> line]

MismatchMsg(expected, got, line) ==
    [kind |-> "mismatch", token |-> <<>>, expected |-> expected, got |-> got,
     line |-> line]

OpenFailMsg ==
    [kind |-> "openfail", token |-> <<>>, expected |-> 0, got |-> 0, line |-> <<>>]

ExitMsg ==
    [kind |-> "exit", token |-> <<>>, expected |-> 0, got |-> 0, line |-> <<>>]

\* ParsedValues collecting the values in the reverse order.
RECURSIVE ParsedValuesRev(_, _)
ParsedValuesRev(toks, i) ==
    IF i > Len(toks) THEN <<>>
    ELSE LET p == ParseF64(toks[i])
         IN  IF p.ok /\ p.finite
             THEN Append(ParsedValuesRev(toks, i + 1), p.val)
             ELSE ParsedValuesRev(toks, i + 1)

\* The filter_map over the tokens: the values kept, in order.
RECURSIVE ParsedValues(_, _)
ParsedValues(toks, i) ==
    IF i > Len(toks) THEN <<>>
    ELSE LET p == ParseF64(toks[i])
         IN  IF p.ok /\ p.finite
             THEN <<p.val>> \o ParsedValues(toks, i + 1)
             ELSE ParsedValues(toks, i + 1)

\* The filter_map over the tokens: the diagnostics it sends, in order.
RECURSIVE ParseMsgs(_, _)
ParseMsgs(toks, i) ==
    IF i > Len(toks) THEN <<>>
    ELSE LET p == ParseF64(toks[i])
         IN  IF p.ok /\ ~p.finite
             THEN <<NonFiniteMsg(toks[i])>> \o ParseMsgs(toks, i + 1)
             ELSE ParseMsgs(toks, i + 1)

\* ------------------------------------------------------------ ring buffer

\* ConstGenericRingBuffer::enqueue: a full buffer drops its oldest element.
enqueue(buf, v, cap) ==
    IF Len(buf) >= cap THEN Append(Tail(buf), v) ELSE Append(buf, v)

Min(a, b) == IF a < b THEN a ELSE b
Max(a, b) == IF a > b THEN a ELSE b

\* ------------------------------------------------------------------ inputs

Line123 == <<"1", ",", "2", ",", "3">>
Line9 == <<"9", ",", "8", ",", "7", ",", "6", ",", "5", ",", "4", ",", "3",
           ",", "2", ",", "1">>
LineMixed == <<"x", ",", "N", "a", "N", ",", "4", ",", "5", ",", "6", ",", "7">>
LineEmpty == <<>>

Lines == {Line123, Line9, LineMixed, LineEmpty}

\* A line of nothing but non-finite values: nine diagnostics.
LineNonFinite == <<"N", "a", "N", ",", "i", "n", "f", ",", "-", "i", "n", "f", ",",
                   "N", "a", "N", ",", "i", "n", "f", ",", "-", "i", "n", "f", ",",
                   "N", "a", "N", ",", "i", "n", "f", ",", "-", "i", "n", "f">>

\* The well-formed lines, and the modes they are well-formed for.
StreamLines == {Line123, Line9}
StreamModes == {"None", "Attitude", "Imu"}


\* ------------------------------------------------------------------- state

VARIABLES
    \* shared between the two threads
    VALS_PER_LINE,      \* static AtomicUsize
    data_chan,          \* the unbounded SensorData channel (tx -> rx)
    msg_chan,           \* the unbounded String channel (etx -> erx)
    clock,              \* Instant::now()
    log_port,           \* the input port: "ok", or "broken" once its reads
                        \* fail for good
    \* PlotterApp
    tele_mode,
    data_history,       \* Vec of ring buffers, oldest sample first
    msg_history,
    lines_count,        \* stats.lines_count
    last_update_time,   \* stats.last_update_time
    lines_since_update, \* stats.lines_since_update
    line_rate,          \* stats.line_rate, as <<lines, half seconds>>
    tele_port,          \* the output port: how many commands were written
                        \* to it, and the last of them
    now,                \* update's local `now`
    ui_pc,              \* position of the UI thread
    \* input_thread
    w_pc,               \* position of the worker
    w_line,             \* the line being handled
    w_values,           \* `values`
    \* history of the handling of w_line
    w_dim0,             \* VALS_PER_LINE when the line was read
    w_selects,          \* nSelects when the line was read
    w_loads,            \* what the loads of VALS_PER_LINE returned, in order
    w_recs,             \* the records sent for the line
    w_msgs,             \* the diagnostics sent for the line
    \* history of the UI thread
    ui_applied,         \* apply_mode ran in this tick
    appended,           \* the rows pushed into data_history since apply_mode
    staleAppended,      \* how many of them came from records of another length
    msg_log,            \* every diagnostic drained so far, oldest first
    rate_base,          \* lines_count at the last_update_time
    nLines,
    nSelects

shared == <<VALS_PER_LINE, data_chan, msg_chan, clock, log_port>>
stats == <<lines_count, last_update_time, lines_since_update, line_rate>>
app == <<tele_mode, data_history, msg_history, tele_port, now, ui_pc>>
worker == <<w_pc, w_line, w_values, w_dim0, w_selects, w_loads, w_recs, w_msgs,
            nLines>>
uihist == <<ui_applied, appended, staleAppended, msg_log, rate_base, nSelects>>
vars == <<shared, stats, app, worker, uihist>>

\* The process is alive: a panic of the UI thread (the main thread) ends it.
Running == ui_pc # "panicked"

\* format!("{}\n", self.tele_mode as u8)
ModeCommand(mode) == <<DigitChar(ModeOrdinal(mode)), "\n">>

\* Nothing written yet.
NoOutput == [count |-> 0, last |-> <<>>]

\* self.tele_port.write_all(bytes)
write_all(port, bytes) == [count |-> port.count + 1, last |-> bytes]

\* vec![ConstGenericRingBuffer::new(); new_dim]
EmptyHistory(dim) == [i \in 1..dim |-> <<>>]

\* main, then PlotterApp::new, which ends with apply_mode() for mode None.
Init ==
    /\ VALS_PER_LINE = mode_to_dim("None")
    /\ data_chan = <<>>
    /\ msg_chan = <<>>
    /\ clock = 0
    /\ log_port = "ok"
    /\ tele_mode = "None"
    /\ data_history = EmptyHistory(mode_to_dim("None"))
    /\ msg_history = <<>>
    /\ lines_count = 0
    /\ last_update_time = 0
    /\ lines_since_update = 0
    /\ line_rate = <<0, 1>>
    /\ tele_port = write_all(NoOutput, ModeCommand("None"))
    /\ now = 0
    /\ ui_pc = "tick"
    /\ w_pc = "open"
    /\ w_line = <<>>
    /\ w_values = <<>>
    /\ w_dim0 = 0
    /\ w_selects = 0
    /\ w_loads = <<>>
    /\ w_recs = <<>>
    /\ w_msgs = <<>>
    /\ ui_applied = FALSE
    /\ appended = <<>>
    /\ staleAppended = 0
    /\ msg_log = <<>>
    /\ rate_base = 0
    /\ nLines = 0
    /\ nSelects = 0

\* ------------------------------------------------------------ input_thread

\* open_serial_port(IN_PORT_PATH) returns Ok.
W_OpenOk ==
    /\ Running
    /\ w_pc = "open"
    /\ w_pc' = "read"
    /\ UNCHANGED <<shared, stats, app, uihist, w_line, w_values, w_dim0, w_selects,
                   w_loads, w_recs, w_msgs, nLines>>

\* open_serial_port(IN_PORT_PATH) returns Err: one diagnostic, then return.
W_OpenFail ==
    /\ Running
    /\ w_pc = "open"
    /\ msg_chan' = Append(msg_chan, OpenFailMsg)
    /\ w_pc' = "done"
    /\ UNCHANGED <<VALS_PER_LINE, data_chan, clock, log_port, stats, app, uihist, w_line,
                   w_values, w_dim0, w_selects, w_loads, w_recs, w_msgs, nLines>>

\* reader.lines() yields Ok(line): split, parse and filter the tokens,
\* sending one diagnostic per non-finite value.
W_ReadLine(line) ==
    /\ Running
    /\ w_pc = "read"
    /\ log_port = "ok"
    /\ nLines' = nLines + 1
    /\ w_line' = line
    /\ w_values' = ParsedValues(Split(line), 1)
    /\ msg_chan' = msg_chan \o ParseMsgs(Split(line), 1)
    /\ w_msgs' = ParseMsgs(Split(line), 1)
    /\ w_recs' = <<>>
    /\ w_loads' = <<>>
    /\ w_dim0' = VALS_PER_LINE
    /\ w_selects' = nSelects
    /\ w_pc' = "cmp"
    /\ UNCHANGED <<VALS_PER_LINE, data_chan, clock, log_port, stats, app, uihist>>

\* reader.lines() yields Err(_): `Err(_) => {}`, and the loop goes on.  The
\* error is one the port recovers from (a read that timed out) or one it
\* does not: then every later read yields Err(_) too.
W_ReadErr ==
    /\ Running
    /\ w_pc = "read"
    /\ log_port' \in {log_port, "broken"}
    /\ UNCHANGED <<VALS_PER_LINE, data_chan, msg_chan, clock, stats, app, worker,
                   uihist>>

\* reader.lines() ends: the loop is left (its locals are gone).
W_EndOfStream ==
    /\ Running
    /\ w_pc = "read"
    /\ log_port = "ok"
    /\ w_pc' = "exit"
    /\ w_line' = <<>>
    /\ w_values' = <<>>
    /\ w_dim0' = 0
    /\ w_selects' = 0
    /\ w_loads' = <<>>
    /\ w_recs' = <<>>
    /\ w_msgs' = <<>>
    /\ UNCHANGED <<shared, stats, app, uihist, nLines>>

\* if values.len() == VALS_PER_LINE.load(Acquire)
W_Compare ==
    /\ Running
    /\ w_pc = "cmp"
    /\ w_loads' = Append(w_loads, VALS_PER_LINE)
    /\ w_pc' = IF Len(w_values) = VALS_PER_LINE THEN "send" ELSE "chk"
    /\ UNCHANGED <<shared, stats, app, uihist, w_line, w_values, w_dim0, w_selects,
                   w_recs, w_msgs, nLines>>

\* data_channel.send(SensorData { values })
W_Send ==
    /\ Running
    /\ w_pc = "send"
    /\ data_chan' = Append(data_chan, w_values)
    /\ w_recs' = Append(w_recs, w_values)
    /\ w_pc' = "read"
    /\ UNCHANGED <<VALS_PER_LINE, msg_chan, clock, log_port, stats, app, uihist, w_line,
                   w_values, w_dim0, w_selects, w_loads, w_msgs, nLines>>

\* else if VALS_PER_LINE.load(Acquire) != 0
W_CheckZero ==
    /\ Running
    /\ w_pc = "chk"
    /\ w_loads' = Append(w_loads, VALS_PER_LINE)
    /\ w_pc' = IF VALS_PER_LINE # 0 THEN "fmt" ELSE "read"
    /\ UNCHANGED <<shared, stats, app, uihist, w_line, w_values, w_dim0, w_selects,
                   w_recs, w_msgs, nLines>>

\* msg_channel.send(format!(.., VALS_PER_LINE.load(Acquire), values.len(), line))
W_Mismatch ==
    /\ Running
    /\ w_pc = "fmt"
    /\ w_loads' = Append(w_loads, VALS_PER_LINE)
    /\ LET m == MismatchMsg(VALS_PER_LINE, Len(w_values), w_line)
       IN  /\ msg_chan' = Append(msg_chan, m)
           /\ w_msgs' = Append(w_msgs, m)
    /\ w_pc' = "read"
    /\ UNCHANGED <<VALS_PER_LINE, data_chan, clock, log_port, stats, app, uihist, w_line,
                   w_values, w_dim0, w_selects, w_recs, nLines>>

\* After the loop: the final diagnostic.
W_Exit ==
    /\ Running
    /\ w_pc = "exit"
    /\ msg_chan' = Append(msg_chan, ExitMsg)
    /\ w_pc' = "done"
    /\ UNCHANGED <<VALS_PER_LINE, data_chan, clock, log_port, stats, app, uihist, w_line,
                   w_values, w_dim0, w_selects, w_loads, w_recs, w_msgs, nLines>>

\* ------------------------------------------------------ PlotterApp::update

\* The first index in 0..vals that is out of bounds for new_data.values or
\* for data_history: where the loop of the drain step panics.
PanicIndex(hist, values, vals) == Min(Len(values), Len(hist))

\* EnqueueRow with the loop ending one channel early (0..vals - 1).
EnqueueRowShort(hist, values, vals) ==
    [i \in 1..Len(hist) |->
        IF i < Min(vals, PanicIndex(hist, values, vals))
        THEN enqueue(hist[i], values[i], MAX_HISTORY_LEN)
        ELSE hist[i]]

\* for i in 0..vals { data_history[i].enqueue(new_data.values[i]) }, as far
\* as it gets.
EnqueueRow(hist, values, vals) ==
    [i \in 1..Len(hist) |->
        IF i <= Min(vals, PanicIndex(hist, values, vals))
        THEN enqueue(hist[i], values[i], MAX_HISTORY_LEN)
        ELSE hist[i]]

\* What the drain loop works on: the fields of PlotterApp it writes, their
\* history, what it leaves in the channel, and whether an index was out of
\* bounds (the thread panicked).
DrainState ==
    [data_history |-> data_history, lines_count |-> lines_count,
     lines_since_update |-> lines_since_update, appended |-> appended,
     staleAppended |-> staleAppended, data_chan |-> data_chan,
     panicked |-> FALSE]

\* The body of `while let Ok(new_data) = self.data_receiver.try_recv()`.
DrainOne(st, new_data, vals) ==
    IF vals > 0
    THEN IF PanicIndex(st.data_history, new_data, vals) < vals
         THEN [st EXCEPT
                 !.lines_count = @ + 1,
                 !.data_history = EnqueueRow(@, new_data, vals),
                 !.panicked = TRUE]
         ELSE [st EXCEPT
                 !.lines_count = @ + 1,
                 !.data_history = EnqueueRow(@, new_data, vals),
                 !.lines_since_update = @ + 1,
                 !.appended = Append(@, SubSeq(new_data, 1, vals)),
                 !.staleAppended = @ + (IF Len(new_data) # vals THEN 1 ELSE 0)]
    ELSE st

\* The loop over what the channel holds, oldest first, until it is empty
\* or the thread panics.
RECURSIVE DrainLoop(_, _, _)
DrainLoop(st, chan, vals) ==
    IF chan = <<>> \/ st.panicked THEN st
    ELSE DrainLoop([DrainOne(st, Head(chan), vals) EXCEPT !.data_chan = Tail(chan)],
                   Tail(chan), vals)

\* RatePerSecond with the interval in the place of the time that elapsed.
RatePerInterval(count, elapsed_time) == <<count, RATE_UPDATE_INTERVAL>>

\* `lines_since_update as f64 / elapsed_time.as_secs_f64()`: the quotient,
\* as its numerator (lines) and its denominator (half seconds).
RatePerSecond(count, elapsed_time) == <<count, elapsed_time>>

\* The start of update: `now`, the drain loop (VALS_PER_LINE has one writer,
\* this thread, so the loop is the drain of what the channel holds when its
\* last try_recv finds it empty), then the rate, updated when a second has
\* passed.
Drain(d) ==
    /\ ui_pc = "tick"
    /\ clock' = clock + d
    /\ now' = clock + d
    /\ LET st == DrainLoop(DrainState, data_chan, VALS_PER_LINE)
           elapsed_time == (clock + d) - last_update_time
       IN  /\ data_chan' = st.data_chan
           /\ data_history' = st.data_history
           /\ lines_count' = st.lines_count
           /\ appended' = st.appended
           /\ staleAppended' = st.staleAppended
           /\ IF st.panicked
              THEN /\ ui_pc' = "panicked"
                   /\ lines_since_update' = st.lines_since_update
                   /\ UNCHANGED <<line_rate, last_update_time, rate_base>>
              ELSE /\ ui_pc' = "mode"
                   /\ IF elapsed_time >= RATE_UPDATE_INTERVAL
                      THEN /\ line_rate' = RatePerSecond(st.lines_since_update,
                                                         elapsed_time)
                           /\ lines_since_update' = 0
                           /\ last_update_time' = clock + d
                           /\ rate_base' = st.lines_count
                      ELSE /\ lines_since_update' = st.lines_since_update
                           /\ UNCHANGED <<line_rate, last_update_time, rate_base>>
    /\ UNCHANGED <<VALS_PER_LINE, msg_chan, log_port, tele_mode, msg_history,
                   tele_port, worker, ui_applied, msg_log, nSelects>>

\* apply_mode without its store to VALS_PER_LINE.
apply_mode_no_store ==
    /\ VALS_PER_LINE' = VALS_PER_LINE
    /\ data_history' = EmptyHistory(mode_to_dim(tele_mode'))
    /\ tele_port' = write_all(tele_port, ModeCommand(tele_mode'))

\* PlotterApp::apply_mode
apply_mode ==
    /\ VALS_PER_LINE' = mode_to_dim(tele_mode')
    /\ data_history' = EmptyHistory(mode_to_dim(tele_mode'))
    /\ tele_port' = write_all(tele_port, ModeCommand(tele_mode'))

\* The operator clicks an entry of the combo box (the current one too):
\* selectable_value sets tele_mode, and apply_mode runs.
SelectMode(mode) ==
    /\ ui_pc = "mode"
    /\ nSelects < MaxSelects
    /\ nSelects' = nSelects + 1
    /\ tele_mode' = mode
    /\ apply_mode
    /\ ui_pc' = "msgs"
    /\ ui_applied' = TRUE
    /\ appended' = <<>>
    /\ staleAppended' = 0
    /\ UNCHANGED <<data_chan, msg_chan, clock, log_port, stats, msg_history, now,
                   worker, msg_log, rate_base>>

\* No entry is clicked in this frame.
NoSelect ==
    /\ ui_pc = "mode"
    /\ ui_pc' = "msgs"
    /\ ui_applied' = FALSE
    /\ UNCHANGED <<shared, stats, tele_mode, data_history, msg_history,
                   tele_port, now, worker, appended, staleAppended, msg_log,
                   rate_base, nSelects>>

\* extend with a full log refusing the new entry.
RECURSIVE extend_keep_oldest(_, _)
extend_keep_oldest(hist, msgs) ==
    IF msgs = <<>> THEN hist
    ELSE extend_keep_oldest(IF Len(hist) >= MAX_MSGS THEN hist
                            ELSE Append(hist, Head(msgs)),
                            Tail(msgs))

\* self.msg_history.extend(self.msg_receiver.try_iter())
RECURSIVE extend(_, _)
extend(hist, msgs) ==
    IF msgs = <<>> THEN hist
    ELSE extend(enqueue(hist, Head(msgs), MAX_MSGS), Tail(msgs))

\* The message panel drains the diagnostics, the panels are painted and
\* update returns.
DrainMsgs ==
    /\ ui_pc = "msgs"
    /\ msg_history' = extend(msg_history, msg_chan)
    /\ msg_log' = msg_log \o msg_chan
    /\ msg_chan' = <<>>
    /\ ui_pc' = "tick"
    /\ UNCHANGED <<VALS_PER_LINE, data_chan, clock, log_port, stats, tele_mode,
                   data_history, tele_port, now, worker, ui_applied, appended,
                   staleAppended, rate_base, nSelects>>

\* What the paint step reads.
min_x == Max(lines_count - MAX_HISTORY_LEN, 0)
max_x == lines_count

\* series_points of channel i: (absolute index, value), oldest first.
series_points(i) ==
    [j \in 1..Len(data_history[i]) |->
        <<lines_count - Len(data_history[i]) + (j - 1), data_history[i][j]>>]

\* ------------------------------------------------------------------- system

\* The two threads, with the source delivering at most maxLines lines out
\* of `lines`, the operator clicking modes out of `modes`, and a frame
\* beginning some half seconds out of `delays` after the one before it.
Step(lines, maxLines, modes, delays) ==
    \/ W_OpenOk
    \/ W_OpenFail
    \/ \E line \in lines : nLines < maxLines /\ W_ReadLine(line)
    \/ W_ReadErr
    \/ W_EndOfStream
    \/ W_Compare
    \/ W_Send
    \/ W_CheckZero
    \/ W_Mismatch
    \/ W_Exit
    \/ \E d \in delays : clock + d <= MaxTime /\ Drain(d)
    \/ \E mode \in modes : SelectMode(mode)
    \/ NoSelect
    \/ DrainMsgs

\* Every mode and every line, a short stream, the frames within one half
\* second.
Next == Step(Lines, MaxLines, TeleCategory, {0})

Spec == Init /\ [][Next]_vars

\* The steps the worker thread takes by itself, once open_serial_port or
\* the read it was blocked in has returned.
WorkerRuns ==
    \/ W_OpenOk
    \/ W_OpenFail
    \/ W_Compare
    \/ W_Send
    \/ W_CheckZero
    \/ W_Mismatch
    \/ W_Exit

\* The steps of a frame in which nothing is clicked; update ends with
\* ctx.request_repaint(), so frames keep coming.
UiRuns == Drain(0) \/ NoSelect \/ DrainMsgs

\* Spec with both threads scheduled again and again.
SpecLive == Init /\ [][Next]_vars /\ WF_vars(WorkerRuns) /\ WF_vars(UiRuns)

\* A longer stream, of the lines and the modes of dimensions 0, 3 and 9.
NextStream == Step(StreamLines, StreamMaxLines, StreamModes, {0})

SpecStream == Init /\ [][NextStream]_vars

\* A stream of lines of non-finite values: more diagnostics than the log
\* holds.
NextMsgs == Step({LineNonFinite}, MsgMaxLines, {"None", "Attitude"}, {0})

SpecMsgs == Init /\ [][NextMsgs]_vars

\* Time passes: a frame begins up to three half seconds after the one
\* before it.
NextRate == Step({Line123}, RateMaxLines, {"Attitude", "Imu"}, {0, 1, 2, 3})

SpecRate == Init /\ [][NextRate]_vars

\* ------------------------------------------------------------------ claims

\* The worker has handled w_line to the end of the loop body.
LineDone == w_pc = "read" /\ w_loads # <<>>

\* The worker has split and parsed w_line.
LineParsed == w_pc \in {"cmp", "send", "chk", "fmt"} \/ LineDone

IsFiniteNumber(tok) == ParseF64(tok).ok /\ ParseF64(tok).finite

AllFinite(toks) == \A i \in 1..Len(toks) : IsFiniteNumber(toks[i])

TokenValues(toks) == [i \in 1..Len(toks) |-> ParseF64(toks[i]).val]

OfKind(msgs, kind) == SelectSeq(msgs, LAMBDA m : m.kind = kind)

\* C1: the drain step of update never panics: every record taken from the
\* channel has at least VALS_PER_LINE values.
C1_DrainNeverPanics == ui_pc # "panicked"

\* C2: a line of exactly D finite numbers, compared with a dimension of D,
\* sends exactly one record, holding the D values in their order, and no
\* diagnostic.
C2_ValidLineYieldsRecord ==
    LET toks == Split(w_line)
    IN  (LineDone /\ AllFinite(toks) /\ w_loads[1] = Len(toks))
            => /\ w_recs = <<TokenValues(toks)>>
               /\ w_msgs = <<>>

C2_Witness ==
    /\ LineDone
    /\ w_line = Line9
    /\ tele_mode = "Imu"
    /\ w_recs = << <<9, 8, 7, 6, 5, 4, 3, 2, 1>> >>

\* C3: when the count of parsed values differs from the expected dimension,
\* and that dimension is not 0, at each of the worker's reads of it for the
\* line, no record is sent and exactly one mismatch diagnostic is, which
\* holds the expected count (as last read) and the actual count.
C3_MismatchYieldsOneDiagnostic ==
    (/\ LineDone
     /\ \A i \in 1..Len(w_loads) :
            w_loads[i] # Len(w_values) /\ w_loads[i] # 0)
        => /\ w_recs = <<>>
           /\ OfKind(w_msgs, "mismatch") =
                  <<[kind |-> "mismatch", token |-> <<>>,
                     expected |-> w_loads[Len(w_loads)],
                     got |-> Len(w_values), line |-> w_line]>>

C3_Witness ==
    /\ LineDone
    /\ w_line = LineMixed
    /\ w_dim0 = 3
    /\ w_loads = <<3, 3, 3>>
    /\ Len(OfKind(w_msgs, "mismatch")) = 1
    /\ w_msgs[Len(w_msgs)].expected = 3
    /\ w_msgs[Len(w_msgs)].got = 4

\* C4: a line read and handled while the expected dimension is 0 sends no
\* record and no diagnostic.
C4_NoneModeSendsNothing ==
    (/\ LineDone
     /\ w_dim0 = 0
     /\ \A i \in 1..Len(w_loads) : w_loads[i] = 0)
        => w_recs = <<>> /\ w_msgs = <<>>

\* C5: every token that is not a finite number is left out of the values and
\* has one diagnostic of its own, naming it.
C5_BadTokenDiagnosed ==
    LET toks == Split(w_line)
        bad == {i \in 1..Len(toks) : ~IsFiniteNumber(toks[i])}
    IN  LineParsed =>
            /\ Len(w_values) = Len(toks) - Cardinality(bad)
            /\ \A i \in bad :
                   Len(SelectSeq(w_msgs, LAMBDA m :
                           m.kind = "nonfinite" /\ m.token = toks[i]))
                       = Cardinality({j \in bad : toks[j] = toks[i]})

\* The dimensions of the modes, as the specification lists them.
C6_Dim(mode) ==
    CASE mode = "None" -> 0
      [] mode = "Imu" -> 9
      [] mode \in {"Pid", "Mix", "Dshot"} -> 4
      [] mode = "Attitude" -> 3

\* C6: when apply_mode has returned, data_history is dim(M) empty buffers
\* and VALS_PER_LINE is dim(M).
C6_TransitionResetsStore ==
    (ui_pc = "msgs" /\ ui_applied)
        => /\ Len(data_history) = C6_Dim(tele_mode)
           /\ \A i \in 1..Len(data_history) : data_history[i] = <<>>
           /\ VALS_PER_LINE = C6_Dim(tele_mode)

C6_Witness ==
    /\ ui_pc = "msgs"
    /\ ui_applied
    /\ tele_mode = "Pid"
    /\ lines_count > 0
    /\ Len(data_history) = 4

\* C7: after n appends since the last mode transition each buffer holds the
\* last min(n, capacity) samples in arrival order, and painting pairs them
\* with the indices max(0, total - capacity) .. total - 1, where total is
\* the number of records appended (n, or else the total frame counter).
C7_RetainedWindow ==
    Running =>
        \A i \in 1..Len(data_history) :
            LET buf == data_history[i]
                n == Len(appended)
                pts == series_points(i)
            IN  /\ Len(buf) = Min(n, MAX_HISTORY_LEN)
                /\ \A j \in 1..Len(buf) : buf[j] = appended[n - Len(buf) + j][i]
                /\ \A j \in 1..Len(buf) : pts[j][2] = buf[j]
                /\ \A j \in 2..Len(buf) : pts[j][1] = pts[j - 1][1] + 1
                /\ Len(buf) > 0 =>
                       \/ /\ pts[1][1] = Max(0, n - MAX_HISTORY_LEN)
                          /\ pts[Len(buf)][1] = n - 1
                       \/ /\ pts[1][1] = Max(0, lines_count - MAX_HISTORY_LEN)
                          /\ pts[Len(buf)][1] = lines_count - 1

\* C8: while the render loop runs, all channel buffers have the same length:
\* a drained record adds one sample to each, a transition replaces them all.
C8_EqualLengths ==
    Running =>
        \A i \in 1..Len(data_history) :
            Len(data_history[i]) = Min(Len(appended), MAX_HISTORY_LEN)

C8_Witness ==
    /\ Running
    /\ Len(data_history) = 9
    /\ Len(appended) > MAX_HISTORY_LEN
    /\ \A i \in 1..9 : Len(data_history[i]) = MAX_HISTORY_LEN

\* C9: a history store receives at most one record that was validated
\* against another dimension than the store's.
C9_AtMostOneStale == staleAppended <= 1

\* C10: lines_count is 0 when apply_mode has returned and grows by one per
\* record appended, so it is the number of records appended since the last
\* transition; the X range brackets the indices of the retained samples.
C10_CounterRestarts ==
    Running =>
        /\ (ui_pc = "msgs" /\ ui_applied) => lines_count = 0
        /\ lines_count = Len(appended)
        /\ \A i \in 1..Len(data_history) :
               \A j \in 1..Len(data_history[i]) :
                   /\ min_x <= series_points(i)[j][1]
                   /\ series_points(i)[j][1] <= max_x

\* C11: a line that the worker reads after the last mode transition has
\* returned is compared with the dimension of the new mode only: each load
\* returns it, a line of another count of values sends no record and one
\* mismatch diagnostic (expected: the new dimension, got: the count), a
\* line of that count sends one record.
C11_NewDimensionOnly ==
    LET dim == C6_Dim(tele_mode)
        got == Len(w_values)
    IN  (LineDone /\ w_selects = nSelects) =>
            /\ \A i \in 1..Len(w_loads) : w_loads[i] = dim
            /\ (got # dim /\ dim # 0) =>
                   /\ w_recs = <<>>
                   /\ OfKind(w_msgs, "mismatch") =
                          <<[kind |-> "mismatch", token |-> <<>>,
                             expected |-> dim, got |-> got, line |-> w_line]>>
            /\ got = dim => w_recs = <<w_values>> /\ OfKind(w_msgs, "mismatch") = <<>>

\* Two transitions, the last one to Pid, then the line of 9 fields.
C11_Witness ==
    /\ LineDone
    /\ w_selects = 2
    /\ nSelects = 2
    /\ tele_mode = "Pid"
    /\ w_line = Line9
    /\ w_recs = <<>>
    /\ w_msgs = <<[kind |-> "mismatch", token |-> <<>>, expected |-> 4,
                   got |-> 9, line |-> Line9]>>

\* C12: msg_history never holds more than 16 entries, and it is the last
\* 16 (or all, if fewer) of the diagnostics drained, in their order: an
\* entry drained into a full log evicts the oldest one and no other.
C12_LogBounded ==
    LET n == Len(msg_log)
        k == IF n < 16 THEN n ELSE 16
    IN  /\ Len(msg_history) <= 16
        /\ msg_history = SubSeq(msg_log, n - k + 1, n)

\* A 17th diagnostic was drained, and the log lost its first entry.
C12_Witness ==
    /\ Len(msg_log) >= 17
    /\ Len(msg_history) = 16
    /\ msg_history[1] # msg_log[1]
    /\ msg_history[16] = msg_log[Len(msg_log)]

\* C13: a tick that begins L >= 1 second (2 half seconds) after the last
\* window boundary, R records having been appended since, sets the rate to
\* R/L, the tally to 0 and the boundary to the tick's timestamp; a tick that
\* begins earlier leaves the rate and the boundary alone and keeps the
\* tally, which is R.
C13_RateWindow ==
    [][(ui_pc = "tick" /\ ui_pc' = "mode") =>
          LET L == now' - last_update_time
              R == lines_count' - rate_base
          IN  IF L >= 2
              THEN /\ line_rate' = <<R, L>>
                   /\ lines_since_update' = 0
                   /\ last_update_time' = now'
              ELSE /\ line_rate' = line_rate
                   /\ last_update_time' = last_update_time
                   /\ lines_since_update' = R]_vars

\* Two records in a window of a second and a half.
C13_Witness ==
    /\ ui_pc = "mode"
    /\ line_rate = <<2, 3>>
    /\ lines_since_update = 0
    /\ last_update_time = now
    /\ lines_count = 2

\* C14: a drain step that returns has taken every record the channel held,
\* in the order of their sending, and for each of them has appended a row
\* to the store and added one to lines_count and to the tally.
C14_DrainAppendsAll ==
    [][(ui_pc = "tick" /\ ui_pc' = "mode") =>
          /\ data_chan' = <<>>
          /\ appended' = appended \o
                 [k \in 1..Len(data_chan) |->
                     SubSeq(data_chan[k], 1, VALS_PER_LINE)]
          /\ lines_count' = lines_count + Len(data_chan)
          /\ lines_since_update' \in {0, lines_since_update + Len(data_chan)}]_vars

\* What handling w_line against the dimension D sends: the records and the
\* mismatch diagnostics.
C15_Outcome(D) ==
    LET got == Len(w_values)
    IN  [recs |-> IF got = D THEN <<w_values>> ELSE <<>>,
         mismatches |->
             IF got # D /\ D # 0
             THEN <<[kind |-> "mismatch", token |-> <<>>, expected |-> D,
                     got |-> got, line |-> w_line]>>
             ELSE <<>>]

\* C15: what a handled line has sent is what it sends against one of the
\* values VALS_PER_LINE had while it was handled, and no mismatch
\* diagnostic names an expected count equal to its actual count.
C15_SingleObservation ==
    LineDone =>
        /\ \E D \in {w_dim0} \cup {w_loads[i] : i \in 1..Len(w_loads)} :
               /\ w_recs = C15_Outcome(D).recs
               /\ OfKind(w_msgs, "mismatch") = C15_Outcome(D).mismatches
        /\ \A i \in 1..Len(w_msgs) :
               w_msgs[i].kind = "mismatch" => w_msgs[i].expected # w_msgs[i].got

\* C16: a step that changes the mode leaves VALS_PER_LINE at the new
\* dimension and the store at that many empty buffers; a step that does not
\* change the mode changes neither VALS_PER_LINE nor the number of buffers
\* and shortens no buffer.
C16_ResetOnlyOnChange ==
    [][/\ tele_mode' # tele_mode =>
              /\ VALS_PER_LINE' = C6_Dim(tele_mode')
              /\ data_history' = [i \in 1..C6_Dim(tele_mode') |-> <<>>]
       /\ tele_mode' = tele_mode =>
              /\ VALS_PER_LINE' = VALS_PER_LINE
              /\ Len(data_history') = Len(data_history)
              /\ \A i \in 1..Len(data_history) :
                     Len(data_history'[i]) >= Len(data_history[i])]_vars

\* C17: when the worker has stopped, the last diagnostic it sent is the
\* exit diagnostic and it sent that one once; if it sent the open-failure
\* diagnostic, it read no line and sent no record.
C17_ExitDiagnosticLast ==
    LET sent == msg_log \o msg_chan
    IN  w_pc = "done" =>
            /\ sent # <<>>
            /\ sent[Len(sent)].kind = "exit"
            /\ Len(OfKind(sent, "exit")) = 1
            /\ OfKind(sent, "openfail") # <<>> =>
                   /\ Len(OfKind(sent, "openfail")) = 1
                   /\ nLines = 0
                   /\ data_chan = <<>>
                   /\ lines_count = 0

\* C18: once the source has ended or its reads fail for good, the worker
\* leaves the loop and sends the final diagnostic (unless the process has
\* ended before); once it has, no record and no diagnostic is sent; a read
\* that fails sends neither.
C18_WorkerTerminates ==
    /\ (w_pc = "exit" \/ log_port = "broken") ~> (w_pc = "done" \/ ~Running)
    /\ [][w_pc = "done" =>
              /\ Len(data_chan') <= Len(data_chan)
              /\ Len(msg_chan') <= Len(msg_chan)]_vars
    /\ [][log_port' # log_port =>
              /\ data_chan' = data_chan
              /\ msg_chan' = msg_chan]_vars

\* The command of a mode, as the specification lists the ordinals.
C19_Command(mode) ==
    <<CASE mode = "None" -> "0" [] mode = "Imu" -> "1"
        [] mode = "Attitude" -> "2" [] mode = "Pid" -> "3"
        [] mode = "Mix" -> "4" [] mode = "Dshot" -> "5",
      "\n">>

\* C19: nothing is written to the port at construction; a step writes to
\* the port if and only if it changes the mode, and then it writes one
\* command, that of the new mode.
C19_CommandPerChange ==
    /\ tele_port.count = 0
    /\ [][(tele_port' # tele_port) <=> (tele_mode' # tele_mode)]_vars
    /\ [][tele_port' # tele_port =>
              /\ tele_port'.count = tele_port.count + 1
              /\ tele_port'.last = C19_Command(tele_mode')]_vars

\* C20: the store has as many buffers as the mode has dimensions, as
\* VALS_PER_LINE says and as the mode has labels, and at most 9, the size
\* of the palette: the paint step's labels[i] and COLORS[i] are in bounds
\* for every buffer.
C20_PaintIndicesInBounds ==
    /\ Len(data_history) = mode_to_dim(tele_mode)
    /\ Len(data_history) = VALS_PER_LINE
    /\ Len(data_history) = Len(mode_to_labels(tele_mode))
    /\ Len(data_history) <= 9
    /\ Len(COLORS) = 9

\* The paint step of a frame with nine channels that hold samples.
C20_Witness ==
    /\ ui_pc = "msgs"
    /\ tele_mode = "Imu"
    /\ Len(data_history) = 9
    /\ data_history[9] # <<>>

=============================================================================
